---- MODULE Spec2Model ----
(***************************************************************************)
(* A model of ai_music.py (AI Music Studio): the tone renderer, the WAV    *)
(* serializer, the Markov and emotion melody generators, the beat          *)
(* renderer and the four request handlers of the Tk user interface.        *)
(*                                                                         *)
(* Numbers.  Python floats are modelled in fixed point:                    *)
(*   - a frequency is a whole number of hundredths of a hertz;             *)
(*   - an amplitude is a whole number of 1/One (One stands for 1.0);       *)
(*   - a duration is a fraction num/den of a second.                       *)
(* math.sin, math.exp and random.uniform are not computed: a sample value  *)
(* is any level of the range the formula of the waveform can take.         *)
(***************************************************************************)
EXTENDS Integers, Sequences, FiniteSets, TLC

VARIABLES
    \* ---- melody generators (generate_ai_melody, generate_emotional_melody)
    mreq,       \* the call: [gen, emotion, length]
    mpc,        \* "call" | "loop" | "done" | "mapped"
    mbase,      \* generate_emotional_melody's local `base`
    melody,     \* the list being built / returned
    current,    \* generate_ai_melody's local `current`
    ai_i,       \* number of iterations of `for _ in range(length)` done
    freqs,      \* the result of melody_to_frequencies
    \* ---- tone renderer and serializer (generate_tone, save_wav)
    treq,       \* the call: [frequency, duration, volume, waveform,
                \*            sample_rate, instrument]
    tpc,        \* "call" | "toned" | "raised" | "saved"
    tprod,      \* the float sample_rate * duration of line 69
    raw,        \* the `value` of each sample, before `* volume`
    audio,      \* the buffer generate_tone returns
    pcm,        \* the int16 frames save_wav writes
    \* ---- beat renderer (generate_beat)
    breq,       \* the call: [pattern, tempo]
    bpc,        \* "call" | "done" | "raised"
    berr,       \* the exception generate_beat raised, or "none"
    beat_audio, \* the buffer returned, one entry per concatenated slot:
                \* [src |-> what fills it, n |-> its number of samples]
    \* ---- the application: the Tk handlers and what they act on
    env,        \* what the imports found: [winsound, playsound, pydub]
    now,        \* int(time.time() * 1000), the clock in milliseconds
    files,      \* the paths of the WAV files written in BASE_DIR
    nsaves,     \* number of save_wav calls made
    last        \* the last handler run: its entry texts, the calls it made,
                \* what it reported, what it started and how it ended

melVars == <<mreq, mpc, mbase, melody, current, ai_i, freqs>>
toneVars == <<treq, tpc, tprod, raw, audio, pcm>>
beatVars == <<breq, bpc, berr, beat_audio>>
appVars == <<env, now, files, nsaves, last>>

vars == <<melVars, toneVars, beatVars, appVars>>

\* ---------------------------------------------------------------- bounds
\* Longest melody requested of a generator.
MaxLen == 3

\* Largest numerator of a duration num/den passed to generate_tone.
MaxDurNum == 3

\* The amplitude 1.0 of a waveform value, and the volume 1.0, in model units.
One == 4

\* Longest beat pattern passed to generate_beat.
MaxPattern == 3

\* Number of save_wav calls followed.
MaxSaves == 2

\* ------------------------------------------------------------ small helpers
\* The elements of a list; random.choice(seq) returns any one of them.
Elems(seq) == {seq[i] : i \in 1..Len(seq)}

Max(a, b) == IF a >= b THEN a ELSE b

\* ------------------------------------------------- notes and the Markov model
\* NOTE_FREQ, in hundredths of a hertz.
NOTE_FREQ ==
    [n \in {"C4","D4","E4","F4","G4","A4","B4","C5","A3","Bb4","Db4","Gb4"} |->
        CASE n = "C4"  -> 26163 [] n = "D4"  -> 29366 [] n = "E4"  -> 32963
          [] n = "F4"  -> 34923 [] n = "G4"  -> 39200 [] n = "A4"  -> 44000
          [] n = "B4"  -> 49388 [] n = "C5"  -> 52325 [] n = "A3"  -> 22000
          [] n = "Bb4" -> 46616 [] n = "Db4" -> 27718 [] n = "Gb4" -> 36999]

\* A training sequence whose final note occurs nowhere else in it.
training_melody_EndsOnNewNote ==
    << "C4","D4","E4","G4","A4",
       "A4","G4","E4","D4","C4",
       "C4","E4","G4","C5",
       "G4","E4","D4","A3" >>

training_melody ==
    << "C4","D4","E4","G4","A4",
       "A4","G4","E4","D4","C4",
       "C4","E4","G4","C5",
       "G4","E4","D4","C4" >>

\* The loop of build_markov_chain from index i on (1-based), markov being the
\* dict so far: markov.setdefault(curr, []).append(nxt).
RECURSIVE MarkovLoop(_, _, _)
MarkovLoop(mel, i, markov) ==
    IF i > Len(mel) - 1 THEN markov
    ELSE LET curr == mel[i]
             nxt  == mel[i + 1]
             old  == IF curr \in DOMAIN markov THEN markov[curr] ELSE <<>>
         IN  MarkovLoop(mel, i + 1,
                 [k \in (DOMAIN markov) \cup {curr} |->
                     IF k = curr THEN Append(old, nxt) ELSE markov[k]])

build_markov_chain(mel) == MarkovLoop(mel, 1, [k \in {} |-> <<>>])

MARKOV == build_markov_chain(training_melody)

\* A loop body that draws every next note from the whole training sequence.
NextNotes_AlwaysRestart(markov, training, cur) == Elems(training)

\* The notes the body of generate_ai_melody's loop can assign to `current`:
\* random.choice(MARKOV[current]) when current is a key, else
\* random.choice(training_melody).
NextNotes(markov, training, cur) ==
    IF cur \in DOMAIN markov THEN Elems(markov[cur]) ELSE Elems(training)

\* A loop that runs once too often.
InRange_OffByOne(i, length) == i <= length

\* `for _ in range(length)`: is there an iteration after i of them?
InRange(i, length) == i < length

\* A lookup that ignores the table.
NoteFreqGet_AlwaysDefault(note) == 44000

\* NOTE_FREQ.get(note, 440.0)
NoteFreqGet(note) ==
    IF note \in DOMAIN NOTE_FREQ THEN NOTE_FREQ[note] ELSE 44000

melody_to_frequencies(mel) == [i \in 1..Len(mel) |-> NoteFreqGet(mel[i])]

\* ------------------------------------------------------- emotion melodies
emotion_patterns ==
    [e \in {"happy", "sad", "romantic", "suspense"} |->
        CASE e = "happy"    -> <<"C4","E4","G4","C5","A4","G4","E4">>
          [] e = "sad"      -> <<"A3","C4","D4","F4","E4","D4","C4">>
          [] e = "romantic" -> <<"C4","E4","G4","B4","A4","G4","E4","D4">>
          [] e = "suspense" -> <<"C4","Db4","E4","Gb4","A4","Bb4","C5">>]

\* A fallback to the wrong pool.
EmotionBase_FallbackSad(emotion) ==
    IF emotion \in DOMAIN emotion_patterns
    THEN emotion_patterns[emotion]
    ELSE emotion_patterns["sad"]

\* emotion_patterns.get(emotion, emotion_patterns['happy'])
EmotionBase(emotion) ==
    IF emotion \in DOMAIN emotion_patterns
    THEN emotion_patterns[emotion]
    ELSE emotion_patterns["happy"]

\* Labels a caller may pass: the four supported ones and two others.
EmotionLabels == (DOMAIN emotion_patterns) \cup {"angry", ""}

\* Lengths a caller may pass (range() of a negative number is empty).
Lengths == (-1)..MaxLen

MelodyRequests ==
    [gen : {"ai"}, emotion : {"none"}, length : Lengths]
    \cup [gen : {"emotion"}, emotion : EmotionLabels, length : Lengths]

\* No call of generate_tone is under way.
ToneIdle ==
    /\ treq = [frequency |-> 0, duration |-> [num |-> 0, den |-> 1], volume |-> 0,
               waveform |-> "none", sample_rate |-> 1, instrument |-> "none"]
    /\ tpc = "idle"
    /\ tprod = [num |-> 0, den |-> 1]
    /\ raw = <<>>
    /\ audio = <<>>
    /\ pcm = <<>>

\* No call of generate_beat is under way.
BeatIdle ==
    /\ breq = [pattern |-> <<>>, tempo |-> 1]
    /\ bpc = "idle"
    /\ berr = "none"
    /\ beat_audio = <<>>

\* The application is not running.
AppIdle ==
    /\ env = [winsound |-> FALSE, playsound |-> FALSE, pydub |-> FALSE]
    /\ now = 0
    /\ files = {}
    /\ nsaves = 0
    /\ last = [handler |-> "none"]

InitMelody ==
    /\ ToneIdle
    /\ BeatIdle
    /\ AppIdle
    /\ mreq \in MelodyRequests
    /\ mpc = "call"
    /\ mbase = <<>>
    /\ melody = <<>>
    /\ current = "none"
    /\ ai_i = 0
    /\ freqs = <<>>

\* generate_ai_melody, lines 254-255: melody = []; current = random.choice(...)
AiStart ==
    /\ mpc = "call" /\ mreq.gen = "ai"
    /\ melody' = <<>>
    /\ current' \in Elems(training_melody)
    /\ ai_i' = 0
    /\ mpc' = "loop"
    /\ UNCHANGED <<mreq, mbase, freqs, toneVars, beatVars, appVars>>

\* One iteration of the loop, lines 256-261.
AiIter ==
    /\ mpc = "loop" /\ InRange(ai_i, mreq.length)
    /\ melody' = Append(melody, current)
    /\ current' \in NextNotes(MARKOV, training_melody, current)
    /\ ai_i' = ai_i + 1
    /\ UNCHANGED <<mreq, mpc, mbase, freqs, toneVars, beatVars, appVars>>

\* The loop is exhausted: return melody (line 262).
AiReturn ==
    /\ mpc = "loop" /\ ~InRange(ai_i, mreq.length)
    /\ mpc' = "done"
    /\ UNCHANGED <<mreq, mbase, melody, current, ai_i, freqs, toneVars, beatVars, appVars>>

\* generate_emotional_melody, lines 280-282: length independent draws from base.
generate_emotional_melody ==
    /\ mpc = "call" /\ mreq.gen = "emotion"
    /\ LET base == EmotionBase(mreq.emotion)
           n    == Max(mreq.length, 0)
       IN  /\ mbase' = base
           /\ \E pick \in [1..n -> 1..Len(base)] :
                  melody' = [i \in 1..n |-> base[pick[i]]]
    /\ mpc' = "done"
    /\ UNCHANGED <<mreq, current, ai_i, freqs, toneVars, beatVars, appVars>>

\* The callers' next step: freqs = melody_to_frequencies(melody).
MelodyToFreqs ==
    /\ mpc = "done"
    /\ freqs' = melody_to_frequencies(melody)
    /\ mpc' = "mapped"
    /\ UNCHANGED <<mreq, mbase, melody, current, ai_i, toneVars, beatVars, appVars>>

NextMelody ==
    \/ AiStart
    \/ AiIter
    \/ AiReturn
    \/ generate_emotional_melody
    \/ MelodyToFreqs

SpecMelody == InitMelody /\ [][NextMelody]_vars

\* =========================================================================
\* Tone renderer (generate_tone) and WAV serializer (save_wav)
\* =========================================================================
SAMPLE_RATE == 44100

\* The float `sample_rate * duration` of line 69, kept as the fraction
\* sample_rate*num/den.  For the sample rates and durations of this model the
\* IEEE-754 product truncates and rounds as the exact product does; that is
\* not so of every product (44100 * 0.35 is 15434.999999999998).
FloatMul(sample_rate, d) == [num |-> sample_rate * d.num, den |-> d.den]

\* Python's round(): to the nearest integer, a tie to the even one.
PyRound(p) ==
    LET fl == p.num \div p.den
        r2 == 2 * (p.num % p.den)
    IN  IF r2 < p.den THEN fl
        ELSE IF r2 > p.den THEN fl + 1
        ELSE IF fl % 2 = 0 THEN fl ELSE fl + 1

\* Python's int() of a float: truncation toward zero.
FloatInt(p) ==
    IF p.num >= 0 THEN p.num \div p.den ELSE -((-p.num) \div p.den)

\* A sample count obtained by rounding.
NumSamples_Rounded(p) == PyRound(p)

\* num_samples = int(sample_rate * duration)
NumSamples(p) == FloatInt(p)

Waveforms == {"sine", "square", "saw", "triangle", "noise", "other"}
Instruments == {"piano", "flute", "pad", "bass", "organ"}

\* The values instrument_wave(name, freq, t) can take, in 1/One: the piano's
\* harmonic stack exceeds 1.0, the others stay within [-1, 1]; an unknown name
\* falls back to the sine.
InstrumentLevels(name) ==
    IF name = "piano" THEN {-(One + One \div 4), 0, One + One \div 4}
    ELSE {-One, 0, One}

\* The values `value` can take for a sample (lines 74-89).
ValueLevels(waveform, instrument) ==
    IF instrument # "none" THEN InstrumentLevels(instrument)
    ELSE IF waveform = "sine" THEN {-One, 0, One}
    ELSE IF waveform = "square" THEN {-One, One}
    ELSE IF waveform = "saw" THEN {-One, 0, One \div 2}
    ELSE IF waveform = "triangle" THEN {-One, 0, One}
    ELSE IF waveform = "noise" THEN {-One, 0, One}
    ELSE {0}

\* audio[i] = value * volume (line 91), in 1/(One*One).
Scale(value, volume) == value * volume

\* A serializer that does not clip.
Clip_Missing(s) == s

\* np.clip(audio, -1.0, 1.0) (line 153); 1.0 is One*One in audio units.
Clip(s) ==
    IF s > One * One THEN One * One
    ELSE IF s < -(One * One) THEN -(One * One)
    ELSE s

\* astype(np.int16) of a whole number: the low 16 bits, two's complement.
AsInt16(x) == ((x + 32768) % 65536) - 32768

\* The float branch of save_wav (lines 152-154) for one sample:
\* (clip(s) * 32767).astype(np.int16).
ToPcm(s) == AsInt16(FloatInt([num |-> Clip(s) * 32767, den |-> One * One]))

Durations == [num : (-1)..MaxDurNum, den : {2, 3, 4}]
Volumes == {0, One \div 2, One, 2 * One}
SampleRates == {2, 3}

ToneRequests ==
    [frequency : {44000}, duration : Durations, volume : Volumes,
     waveform : Waveforms, sample_rate : SampleRates, instrument : {"none"}]
    \cup
    [frequency : {44000}, duration : Durations, volume : Volumes,
     waveform : {"sine"}, sample_rate : SampleRates, instrument : Instruments]

\* No call of a melody generator is under way.
MelodyIdle ==
    /\ mreq = [gen |-> "none", emotion |-> "none", length |-> 0]
    /\ mpc = "idle"
    /\ mbase = <<>>
    /\ melody = <<>>
    /\ current = "none"
    /\ ai_i = 0
    /\ freqs = <<>>

InitTone ==
    /\ MelodyIdle
    /\ BeatIdle
    /\ AppIdle
    /\ treq \in ToneRequests
    /\ tpc = "call"
    /\ tprod = [num |-> 0, den |-> 1]
    /\ raw = <<>>
    /\ audio = <<>>
    /\ pcm = <<>>

\* generate_tone (lines 68-93).  np.zeros of a negative count raises
\* ValueError.
generate_tone ==
    /\ tpc = "call"
    /\ LET p == FloatMul(treq.sample_rate, treq.duration) IN
        /\ tprod' = p
        /\ IF NumSamples(p) < 0
           THEN /\ tpc' = "raised"
                /\ UNCHANGED <<raw, audio>>
           ELSE /\ tpc' = "toned"
                /\ \E vals \in [1..NumSamples(p) ->
                                ValueLevels(treq.waveform, treq.instrument)] :
                      /\ raw' = vals
                      /\ audio' = [i \in 1..NumSamples(p) |->
                                      Scale(vals[i], treq.volume)]
    /\ UNCHANGED <<treq, pcm, melVars, beatVars, appVars>>

\* save_wav on the returned float32 buffer: the frames written (lines 149-154,
\* 172).
SaveTone ==
    /\ tpc = "toned"
    /\ pcm' = [i \in 1..Len(audio) |-> ToPcm(audio[i])]
    /\ tpc' = "saved"
    /\ UNCHANGED <<treq, tprod, raw, audio, melVars, beatVars, appVars>>

NextTone ==
    \/ generate_tone
    \/ SaveTone

SpecTone == InitTone /\ [][NextTone]_vars

\* =========================================================================
\* Beat renderer (generate_beat)
\* =========================================================================
\* beat_unit = 60.0 / tempo (line 302), tempo # 0, as a fraction with a
\* positive denominator.
BeatUnit(tempo) ==
    IF tempo > 0 THEN [num |-> 60, den |-> tempo]
    ELSE [num |-> -60, den |-> -tempo]

\* int(sample_rate * duration), the sample count of lines 289, 295 and 309.
\* For the tempos of this model the IEEE-754 value of 44100 * (60.0 / tempo)
\* truncates and rounds as the exact quotient does (it does not at tempo 735,
\* where it is 3599.9999999999995).
SlotSamples(duration) == FloatInt(FloatMul(SAMPLE_RATE, duration))

\* kick_drum_sample(duration): a decaying 60 Hz sine over
\* np.linspace(0, duration, int(sample_rate * duration), False).
kick_drum_sample(duration) == [src |-> "kick", n |-> SlotSamples(duration)]

\* A snare taken at its default duration of 0.25 s.
snare_drum_sample_Default(duration) ==
    [src |-> "snare", n |-> SlotSamples([num |-> 1, den |-> 4])]

\* snare_drum_sample(duration): decaying uniform noise over the same grid.
snare_drum_sample(duration) == [src |-> "snare", n |-> SlotSamples(duration)]

\* The slot `s` of one pattern entry (lines 304-309).
BeatSlot(part, beat_unit) ==
    IF part = "kick" THEN kick_drum_sample(beat_unit)
    ELSE IF part = "snare" THEN snare_drum_sample(beat_unit)
    ELSE [src |-> "zeros", n |-> SlotSamples(beat_unit)]

BeatLabels == {"kick", "snare", "hat"}
Patterns == UNION {[1..n -> BeatLabels] : n \in 0..MaxPattern}
Tempos == {-60, 0, 31, 100, 120}

InitBeat ==
    /\ MelodyIdle
    /\ ToneIdle
    /\ AppIdle
    /\ breq \in [pattern : Patterns, tempo : Tempos]
    /\ bpc = "call"
    /\ berr = "none"
    /\ beat_audio = <<>>

\* generate_beat (lines 300-311).  60.0 / 0 raises ZeroDivisionError before
\* the loop; np.linspace and np.zeros raise ValueError on a negative count,
\* in the first iteration of the loop.
BeatResult(pattern, tempo) ==
    IF tempo = 0
    THEN [status |-> "raised", err |-> "ZeroDivisionError", audio |-> <<>>]
    ELSE IF pattern # <<>> /\ SlotSamples(BeatUnit(tempo)) < 0
    THEN [status |-> "raised", err |-> "ValueError", audio |-> <<>>]
    ELSE [status |-> "done", err |-> "none",
          audio |-> [i \in 1..Len(pattern) |->
                        BeatSlot(pattern[i], BeatUnit(tempo))]]

generate_beat ==
    /\ bpc = "call"
    /\ LET r == BeatResult(breq.pattern, breq.tempo) IN
        /\ bpc' = r.status
        /\ berr' = r.err
        /\ beat_audio' = r.audio
    /\ UNCHANGED <<breq, melVars, toneVars, appVars>>

NextBeat == generate_beat

SpecBeat == InitBeat /\ [][NextBeat]_vars

\* =========================================================================
\* The application: entry texts, save_wav, playback, MP3 export, handlers
\* =========================================================================
\* The text of an Entry: an integer literal ("120"), a decimal literal
\* ("0.5" is num 1, den 2), a word ("abc") or nothing ("").
IntText(n) == [kind |-> "int", num |-> n, den |-> 1]
DecText(n, d) == [kind |-> "dec", num |-> n, den |-> d]
WordText == [kind |-> "word", num |-> 0, den |-> 1]
BlankText == [kind |-> "blank", num |-> 0, den |-> 1]

\* A float() that takes any text for a number.
ParseFloat_Lenient(t) == [ok |-> TRUE, val |-> [num |-> t.num, den |-> t.den]]

\* float(text): raises ValueError unless the text is a number.
ParseFloat(t) ==
    [ok |-> t.kind \in {"int", "dec"}, val |-> [num |-> t.num, den |-> t.den]]

\* int(text): raises ValueError unless the text is an integer literal.
ParseInt(t) == [ok |-> t.kind = "int", val |-> t.num]

\* A WAV file name as os.path.splitext sees it.
WavName(base) == [base |-> base, ext |-> ".wav"]

\* save_wav, lines 161-165: f"{base}_{int(time.time()*1000)}{ext}" in BASE_DIR.
UniquePath(filename, stamp) ==
    [base |-> filename.base, stamp |-> stamp,
     ext |-> IF filename.ext = "" THEN ".wav" ELSE filename.ext]

\* play_wav_nonblocking (lines 198-222): the backend that took the file and
\* what was printed.  wsOk: winsound.PlaySound did not raise.
PlayResult(wsOk) ==
    IF env.winsound /\ wsOk
    THEN [played |-> "winsound", reports |-> <<>>]
    ELSE LET fell == IF env.winsound
                     THEN <<"print: winsound playback failed">> ELSE <<>>
         IN  IF env.playsound
             THEN [played |-> "playsound thread", reports |-> fell]
             ELSE [played |-> "none",
                   reports |-> fell \o <<"print: No playback library available">>]

\* winsound.PlaySound can raise only where winsound was imported.
WinsoundOutcomes == IF env.winsound THEN BOOLEAN ELSE {TRUE}

\* wav_to_mp3 (lines 180-186): what it raises, or "ok".  ffmpeg: the value of
\* shutil.which('ffmpeg').
WavToMp3(ffmpeg) ==
    IF ~env.pydub THEN "RuntimeError: pydub is required"
    ELSE IF ~ffmpeg THEN "RuntimeError: ffmpeg not found"
    ELSE "ok"

\* The MP3 name of lines 407-413: the entry's, with ".mp3" added unless it
\* ends so, or the file dialog's when the entry is empty.
NoMp3Name == [stem |-> "", ext |-> ""]

Mp3Name(mp3) ==
    IF mp3.name = NoMp3Name THEN mp3.dialog
    ELSE [stem |-> mp3.name.stem, ext |-> ".mp3"]

\* An MP3 step whose failure escapes the handler.
Mp3Result_Uncaught(mp3, ffmpeg) ==
    IF ~mp3.save \/ Mp3Name(mp3) = NoMp3Name
    THEN [status |-> "ok", calls |-> <<>>, reports |-> <<>>, mp3 |-> NoMp3Name]
    ELSE IF WavToMp3(ffmpeg) = "ok"
    THEN [status |-> "ok", calls |-> <<"wav_to_mp3">>,
          reports |-> <<"showinfo: Saved">>, mp3 |-> Mp3Name(mp3)]
    ELSE [status |-> "raised", calls |-> <<"wav_to_mp3">>,
          reports |-> <<WavToMp3(ffmpeg)>>, mp3 |-> NoMp3Name]

\* Lines 406-418 of _generate_and_play_manual: nothing when the box is not
\* ticked or the dialog is cancelled; else wav_to_mp3 inside try/except.
Mp3Result(mp3, ffmpeg) ==
    IF ~mp3.save \/ Mp3Name(mp3) = NoMp3Name
    THEN [status |-> "ok", calls |-> <<>>, reports |-> <<>>, mp3 |-> NoMp3Name]
    ELSE IF WavToMp3(ffmpeg) = "ok"
    THEN [status |-> "ok", calls |-> <<"wav_to_mp3">>,
          reports |-> <<"showinfo: Saved">>, mp3 |-> Mp3Name(mp3)]
    ELSE [status |-> "ok", calls |-> <<"wav_to_mp3">>,
          reports |-> <<"showerror: MP3 Save Failed">>, mp3 |-> NoMp3Name]

\* shutil.which('ffmpeg') is evaluated only when wav_to_mp3 is called and
\* pydub was imported.
FfmpegOutcomes(mp3) ==
    IF mp3.save /\ Mp3Name(mp3) # NoMp3Name /\ env.pydub THEN BOOLEAN ELSE {FALSE}

\* What follows playback in _ai_generate_and_play and _play_emotion:
\* visualize_waveform(full).
Visualized ==
    [status |-> "ok", calls |-> <<"visualize_waveform">>, reports |-> <<>>,
     mp3 |-> NoMp3Name]

\* Nothing follows playback in _play_beat.
NothingMore ==
    [status |-> "ok", calls |-> <<>>, reports |-> <<>>, mp3 |-> NoMp3Name]

\* The handler showed 'Invalid input' and returned (lines 392-394, 443-445,
\* 504-506).
Rejected(handler, fields) ==
    /\ last' = [handler |-> handler, fields |-> fields, options |-> <<>>,
                status |-> "rejected", calls |-> <<>>,
                reports |-> <<"showerror: Invalid input">>,
                wav_path |-> "none", overwrote |-> FALSE,
                played |-> "none", mp3 |-> NoMp3Name]
    /\ UNCHANGED <<now, files, nsaves>>

\* An exception left the handler after `calls` (Tk prints the traceback).
Raised(handler, fields, options, calls, err) ==
    /\ last' = [handler |-> handler, fields |-> fields, options |-> options,
                status |-> "raised", calls |-> calls,
                reports |-> <<err>>,
                wav_path |-> "none", overwrote |-> FALSE,
                played |-> "none", mp3 |-> NoMp3Name]
    /\ UNCHANGED <<now, files, nsaves>>

\* Rendering in generate_tone's per-sample Python loop the buffers of the
\* handlers (13230 samples a note and more) takes longer than a millisecond;
\* an empty buffer and the numpy slots of a beat need not.
SlowRender(samples) == samples > 0

\* The common tail of the handlers: save_wav(filename, audio), which opens
\* the path for writing whatever it held (lines 165-172), then
\* play_wav_nonblocking(wav_path), then what `after` stands for.  slow: the
\* clock moved on while the audio was rendered.
SavedAndPlayed(handler, fields, options, before, slow, filename, wsOk, after) ==
    LET stamp == IF slow THEN now + 1 ELSE now
        path == UniquePath(filename, stamp)
        play == PlayResult(wsOk)
    IN  /\ now' = stamp
        /\ files' = files \cup {path}
        /\ nsaves' = nsaves + 1
        /\ last' = [handler |-> handler, fields |-> fields, options |-> options,
                    status |-> after.status,
                    calls |-> before \o <<"save_wav", "play_wav_nonblocking">>
                                     \o after.calls,
                    reports |-> play.reports \o after.reports,
                    wav_path |-> path, overwrote |-> path \in files,
                    played |-> play.played, mp3 |-> after.mp3]

FreqTexts == {WordText, IntText(440)}
DurTexts == {BlankText, IntText(0), DecText(1, 2), IntText(-1)}
VolTexts == {WordText, DecText(1, 2)}
WaveformChoices == {"sine", "piano"}
Mp3Options ==
    {[save |-> FALSE, name |-> NoMp3Name, dialog |-> NoMp3Name],
     [save |-> TRUE, name |-> NoMp3Name, dialog |-> NoMp3Name],
     [save |-> TRUE, name |-> NoMp3Name, dialog |-> [stem |-> "picked", ext |-> ".mp3"]],
     [save |-> TRUE, name |-> [stem |-> "song", ext |-> ""], dialog |-> NoMp3Name]}
LengthTexts == {WordText, IntText(2), IntText(0), DecText(3, 2)}
NoteDurTexts == {BlankText, DecText(3, 10), IntText(-1)}
TempoTexts == {WordText, DecText(3, 2), IntText(120), IntText(0), IntText(-60)}
\* The comma separated pieces of the pattern entry, stripped.
PatternTexts == {<<>>, <<"kick", "snare">>, <<"kick", "", "hat">>}
\* The emotions of the four buttons.
EmotionButtons == {"happy", "sad", "romantic", "suspense"}

\* [p.strip() for p in text.split(',') if p.strip()] (line 507)
RECURSIVE NonBlank(_)
NonBlank(parts) ==
    IF parts = <<>> THEN <<>>
    ELSE IF Head(parts) = "" THEN NonBlank(Tail(parts))
    ELSE <<Head(parts)>> \o NonBlank(Tail(parts))

InitApp ==
    /\ MelodyIdle
    /\ ToneIdle
    /\ BeatIdle
    /\ env \in [winsound : BOOLEAN, playsound : BOOLEAN, pydub : BOOLEAN]
    /\ now = 0
    /\ files = {}
    /\ nsaves = 0
    /\ last = [handler |-> "none"]

\* _generate_and_play_manual (lines 387-418).
GenerateAndPlayManual ==
    /\ nsaves < MaxSaves
    /\ \E f \in FreqTexts, d \in DurTexts, v \in VolTexts :
        LET fields == [frequency |-> f, duration |-> d, volume |-> v] IN
        IF ~(ParseFloat(f).ok /\ ParseFloat(d).ok /\ ParseFloat(v).ok)
        THEN Rejected("manual", fields)
        ELSE \E w \in WaveformChoices :
            IF NumSamples(FloatMul(SAMPLE_RATE, ParseFloat(d).val)) < 0
            THEN Raised("manual", fields, [waveform |-> w],
                        <<"generate_tone">>, "ValueError")
            ELSE \E mp3 \in Mp3Options :
                 \E ffmpeg \in FfmpegOutcomes(mp3), wsOk \in WinsoundOutcomes :
                    SavedAndPlayed("manual", fields,
                                   [waveform |-> w, mp3 |-> mp3],
                                   <<"generate_tone">>,
                                   SlowRender(NumSamples(FloatMul(SAMPLE_RATE,
                                                  ParseFloat(d).val))),
                                   WavName(<<"manual_generated">>), wsOk,
                                   Mp3Result(mp3, ffmpeg))
    /\ UNCHANGED <<env, melVars, toneVars, beatVars>>

\* _ai_generate_and_play (lines 439-457).
AiGenerateAndPlay ==
    /\ nsaves < MaxSaves
    /\ \E l \in LengthTexts, d \in NoteDurTexts :
        LET fields == [length |-> l, note_dur |-> d]
            notes == ParseInt(l).val
            tones == IF notes >= 1 THEN <<"generate_tone">> ELSE <<>>
            before == <<"generate_ai_melody", "melody_to_frequencies">> \o tones
        IN  IF ~(ParseInt(l).ok /\ ParseFloat(d).ok)
            THEN Rejected("ai", fields)
            ELSE IF notes >= 1 /\
                    NumSamples(FloatMul(SAMPLE_RATE, ParseFloat(d).val)) < 0
            THEN Raised("ai", fields, <<>>, before, "ValueError")
            ELSE \E wsOk \in WinsoundOutcomes :
                    SavedAndPlayed("ai", fields, <<>>, before,
                                   SlowRender(Max(notes, 0) *
                                       NumSamples(FloatMul(SAMPLE_RATE,
                                                  ParseFloat(d).val))),
                                   WavName(<<"ai_melody">>), wsOk, Visualized)
    /\ UNCHANGED <<env, melVars, toneVars, beatVars>>

\* _play_emotion (lines 467-478), bound to the four buttons.
PlayEmotion ==
    /\ nsaves < MaxSaves
    /\ \E emotion \in EmotionButtons, wsOk \in WinsoundOutcomes :
        SavedAndPlayed("emotion", <<>>, [emotion |-> emotion],
                       <<"generate_emotional_melody", "melody_to_frequencies",
                         "generate_tone">>,
                       SlowRender(16 * NumSamples(FloatMul(SAMPLE_RATE,
                                           [num |-> 35, den |-> 100]))),
                       WavName(<<emotion, "_music">>), wsOk, Visualized)
    /\ UNCHANGED <<env, melVars, toneVars, beatVars>>

\* _play_beat (lines 501-511).
PlayBeat ==
    /\ nsaves < MaxSaves
    /\ \E t \in TempoTexts :
        IF ~ParseInt(t).ok
        THEN Rejected("beat", [tempo |-> t])
        ELSE \E parts \in PatternTexts :
            LET pattern == NonBlank(parts)
                tempo == ParseInt(t).val
                options == [pattern |-> pattern, tempo |-> tempo]
            IN  IF BeatResult(pattern, tempo).status = "raised"
                THEN Raised("beat", [tempo |-> t], options, <<"generate_beat">>,
                            BeatResult(pattern, tempo).err)
                ELSE \E wsOk \in WinsoundOutcomes :
                        SavedAndPlayed("beat", [tempo |-> t], options,
                                       <<"generate_beat">>, FALSE,
                                       WavName(<<"beat">>), wsOk, NothingMore)
    /\ UNCHANGED <<env, melVars, toneVars, beatVars>>

\* A millisecond passes.  The clock is read by save_wav alone, so the
\* milliseconds in which no file was saved are left out.
Tick ==
    /\ \E path \in files : path.stamp = now
    /\ now' = now + 1
    /\ UNCHANGED <<env, files, nsaves, last, melVars, toneVars, beatVars>>

Next ==
    \/ GenerateAndPlayManual
    \/ AiGenerateAndPlay
    \/ PlayEmotion
    \/ PlayBeat
    \/ Tick

Spec == InitApp /\ [][Next]_vars

\* ------------------------------------------------------------------ C2
\* Training sequences over three notes, up to length 3, some of which end in
\* a note that is no key of the model built from them.
SmallTrainings ==
    UNION {[1..n -> {"C4", "D4", "E4"}] : n \in 1..3}

\* C2: generate_ai_melody(L) returns exactly L notes (none when L <= 0), each
\* a note of the training sequence; while it runs it has emitted one note per
\* iteration and holds a training note to emit next; and from a note that is
\* no key of a Markov model the walk goes on with any note of the training
\* sequence the model was built from.
AiMelodyHasLengthL ==
    /\ (mreq.gen = "ai" /\ mpc \in {"done", "mapped"}) =>
          /\ Len(melody) = Max(mreq.length, 0)
          /\ \A i \in 1..Len(melody) : melody[i] \in Elems(training_melody)
    /\ (mreq.gen = "ai" /\ mpc = "loop") =>
          /\ Len(melody) = ai_i
          /\ ai_i <= Max(mreq.length, 0)
          /\ current \in Elems(training_melody)
    /\ \A tr \in SmallTrainings : \A n \in Elems(tr) :
          /\ NextNotes(build_markov_chain(tr), tr, n) # {}
          /\ NextNotes(build_markov_chain(tr), tr, n) \subseteq Elems(tr)
          /\ n \notin DOMAIN build_markov_chain(tr) =>
                NextNotes(build_markov_chain(tr), tr, n) = Elems(tr)

\* generate_ai_melody(MaxLen) has returned MaxLen notes.
AiMelodyReturned ==
    /\ mreq.gen = "ai" /\ mpc = "done"
    /\ mreq.length = MaxLen /\ Len(melody) = MaxLen

\* ------------------------------------------------------------------ C3
SupportedEmotions == {"happy", "sad", "romantic", "suspense"}

\* C3: generate_emotional_melody returns exactly `length` notes, all of the
\* label's pool; for an unsupported label the pool drawn from is the pool of
\* 'happy', so the possible outputs are those of 'happy'.
EmotionMelodyInPool ==
    (mreq.gen = "emotion" /\ mpc \in {"done", "mapped"}) =>
        /\ Len(melody) = Max(mreq.length, 0)
        /\ mreq.emotion \in SupportedEmotions =>
              \A i \in 1..Len(melody) :
                  melody[i] \in Elems(emotion_patterns[mreq.emotion])
        /\ mreq.emotion \notin SupportedEmotions =>
              /\ mbase = emotion_patterns["happy"]
              /\ \A i \in 1..Len(melody) :
                  melody[i] \in Elems(emotion_patterns["happy"])

\* An unsupported label has produced a full-length melody ending on C5.
UnsupportedEmotionReturned ==
    /\ mreq.gen = "emotion" /\ mpc = "done"
    /\ mreq.emotion = "angry"
    /\ mreq.length = MaxLen /\ Len(melody) = MaxLen
    /\ melody[MaxLen] = "C5"

\* ------------------------------------------------------------------ C10
\* C10: for every melody a generator returns, melody_to_frequencies returns a
\* list of the same length whose i-th entry is the table frequency of the
\* i-th note; every generated note is in the table, and a name that is not
\* maps to 440.0.
GeneratedMelodyRenderable ==
    /\ mpc = "mapped" =>
          /\ Len(freqs) = Len(melody)
          /\ \A i \in 1..Len(melody) :
                /\ melody[i] \in DOMAIN NOTE_FREQ
                /\ freqs[i] = NOTE_FREQ[melody[i]]
    /\ melody_to_frequencies(<<"E4", "H9", "C4">>) = <<32963, 44000, 26163>>

\* A suspense melody of full length, starting on Db4, has been mapped.
SuspenseMelodyMapped ==
    /\ mpc = "mapped" /\ mreq.emotion = "suspense"
    /\ Len(melody) = MaxLen /\ melody[1] = "Db4" /\ freqs[1] = 27718

\* ------------------------------------------------------------------ C1
\* C1 as stated: for a duration >= 0 the buffer generate_tone returns has
\* round(sample_rate * duration) samples.
ToneLengthIsRounded ==
    (tpc \in {"toned", "saved"} /\ treq.duration.num >= 0) =>
        Len(audio) = PyRound(tprod)

\* C1, amended: for a duration >= 0 generate_tone returns a buffer, and its
\* length n is the product sample_rate * duration truncated: n <= product <
\* n + 1, so n is round(product) or one less; a duration of 0 yields the
\* empty buffer.
ToneLengthIsTruncated ==
    /\ (tpc # "call" /\ treq.duration.num >= 0) =>
          /\ tpc \in {"toned", "saved"}
          /\ tprod.num = treq.sample_rate * treq.duration.num
          /\ tprod.den = treq.duration.den
          /\ Len(audio) * tprod.den <= tprod.num
          /\ tprod.num < (Len(audio) + 1) * tprod.den
          /\ PyRound(tprod) - Len(audio) \in {0, 1}
    /\ (tpc # "call" /\ treq.duration.num = 0) => audio = <<>>

\* A tone of 3 * 3/4 = 2.25 samples came out 2 samples long, and one of
\* 0.75 samples would come out empty where round() gives 1.
ToneOfFractionalLength ==
    /\ tpc = "toned" /\ treq.sample_rate = 3
    /\ treq.duration = [num |-> 3, den |-> 4]
    /\ Len(audio) = 2

\* ------------------------------------------------------------------ C7
\* C7: generate_tone stores value * volume unclamped (a volume above 1.0
\* yields samples beyond 1.0), and save_wav writes for each sample the int16
\* of clamp(sample, -1, 1) * 32767, which lies in [-32767, 32767].
ClampOnlyAtSerialization ==
    /\ tpc \in {"toned", "saved"} =>
          /\ Len(audio) = Len(raw)
          /\ \A i \in 1..Len(audio) : audio[i] = raw[i] * treq.volume
    /\ tpc = "saved" =>
          /\ Len(pcm) = Len(audio)
          /\ \A i \in 1..Len(pcm) :
                /\ pcm[i] >= -32767 /\ pcm[i] <= 32767
                /\ audio[i] >= One * One => pcm[i] = 32767
                /\ audio[i] <= -(One * One) => pcm[i] = -32767
                /\ (audio[i] >= 0 /\ audio[i] < One * One) =>
                      pcm[i] = (audio[i] * 32767) \div (One * One)
                /\ (audio[i] < 0 /\ audio[i] > -(One * One)) =>
                      pcm[i] = -(((-audio[i]) * 32767) \div (One * One))

\* A tone at volume 2.0 holds a sample of 2.0, written as 32767.
LoudSampleClamped ==
    /\ tpc = "saved" /\ treq.volume = 2 * One
    /\ \E i \in 1..Len(audio) :
          /\ raw[i] = One
          /\ audio[i] = 2 * One * One
          /\ pcm[i] = 32767

\* ------------------------------------------------------------------ C4
RECURSIVE TotalSamples(_)
TotalSamples(buf) ==
    IF buf = <<>> THEN 0 ELSE buf[1].n + TotalSamples(Tail(buf))

\* C4 as stated: for a tempo > 0 every slot of the beat has
\* round(sample_rate * 60/tempo) samples.
BeatSlotsAreRounded ==
    (bpc = "done" /\ breq.tempo > 0) =>
        \A i \in 1..Len(beat_audio) :
            beat_audio[i].n = PyRound([num |-> SAMPLE_RATE * 60, den |-> breq.tempo])

\* C4, amended: for a tempo > 0 generate_beat returns one slot per label, in
\* pattern order, each of u samples where u is 44100 * 60/tempo truncated
\* (u * tempo <= 44100 * 60 < (u + 1) * tempo), so the total is len(pattern)
\* * u (2 * 22050 for kick, snare at tempo 120); the slot of a label other
\* than kick and snare is all zeros; the empty pattern yields the empty buffer.
BeatSlotsAreTruncated ==
    (bpc # "call" /\ breq.tempo > 0) =>
        /\ bpc = "done"
        /\ Len(beat_audio) = Len(breq.pattern)
        /\ \A i \in 1..Len(beat_audio) :
              /\ beat_audio[i].n * breq.tempo <= SAMPLE_RATE * 60
              /\ SAMPLE_RATE * 60 < (beat_audio[i].n + 1) * breq.tempo
              /\ beat_audio[i].n = beat_audio[1].n
              /\ beat_audio[i].src =
                    IF breq.pattern[i] \in {"kick", "snare"}
                    THEN breq.pattern[i] ELSE "zeros"
        /\ beat_audio # <<>> =>
              TotalSamples(beat_audio) = Len(breq.pattern) * beat_audio[1].n
        /\ breq.pattern = <<>> => beat_audio = <<>>
        /\ (breq.tempo = 120 /\ breq.pattern = <<"kick", "snare">>) =>
              TotalSamples(beat_audio) = 2 * 22050

\* A beat at tempo 31 with a silent slot: 85354 samples a slot, where
\* 44100 * 60/31 = 85354.8...
BeatWithSilentSlot ==
    /\ bpc = "done" /\ breq.tempo = 31
    /\ breq.pattern = <<"kick", "hat", "snare">>
    /\ beat_audio[2] = [src |-> "zeros", n |-> 85354]
    /\ TotalSamples(beat_audio) = 3 * 85354

\* ------------------------------------------------------------------ C5
\* The text is a number: an integer or a decimal literal.
Numeric(t) == t.kind \in {"int", "dec"}

\* C5: a manual, AI melody or beat request with a field that is no number is
\* reported as invalid input and ends there: no renderer, no save_wav and no
\* play_wav_nonblocking call is made, no file and no playback results.
NonNumericRejected ==
    (/\ last.handler \in {"manual", "ai", "beat"}
     /\ \E k \in DOMAIN last.fields : ~Numeric(last.fields[k])) =>
        /\ last.status = "rejected"
        /\ last.calls = <<>>
        /\ last.reports = <<"showerror: Invalid input">>
        /\ last.wav_path = "none"
        /\ last.played = "none"

\* A manual request whose volume alone is no number was rejected.
ManualWithBadVolumeRejected ==
    /\ last.handler = "manual"
    /\ Numeric(last.fields.frequency) /\ Numeric(last.fields.duration)
    /\ last.fields.volume = WordText
    /\ last.status = "rejected"

\* ------------------------------------------------------------------ C6
\* C6: _play_beat never calls generate_beat with a tempo <= 0, and no beat
\* request ends in an unhandled error.
BeatTempoCheckedByCaller ==
    last.handler = "beat" =>
        /\ \A i \in 1..Len(last.calls) :
              last.calls[i] = "generate_beat" => last.options.tempo > 0
        /\ last.status # "raised"

\* ------------------------------------------------------------------ C8
\* C8: whatever the imports found, a manual request with numeric fields and
\* a duration >= 0 generates the tone, saves it and attempts playback, in
\* that order and before any wav_to_mp3 call, and ends normally with the WAV
\* file in place; a missing playback library and a failed MP3 export are
\* reported, nothing more.
MissingCapabilityOnlyReported ==
    (/\ last.handler = "manual"
     /\ \A k \in DOMAIN last.fields : Numeric(last.fields[k])
     /\ last.fields.duration.num >= 0) =>
        /\ last.status = "ok"
        /\ Len(last.calls) >= 3
        /\ SubSeq(last.calls, 1, 3) =
              <<"generate_tone", "save_wav", "play_wav_nonblocking">>
        /\ \A i \in 1..Len(last.calls) : last.calls[i] = "wav_to_mp3" => i = 4
        /\ last.wav_path \in files
        /\ (~env.winsound /\ ~env.playsound) =>
              /\ last.played = "none"
              /\ "print: No playback library available" \in Elems(last.reports)
        /\ (env.playsound) => last.played # "none"
        /\ ("wav_to_mp3" \in Elems(last.calls) /\ ~env.pydub) =>
              /\ "showerror: MP3 Save Failed" \in Elems(last.reports)
              /\ last.mp3 = NoMp3Name
        /\ ("wav_to_mp3" \in Elems(last.calls) /\ last.mp3 = NoMp3Name) =>
              "showerror: MP3 Save Failed" \in Elems(last.reports)

\* With no playback library and no pydub, a manual request asking for an MP3
\* ended normally with its WAV file saved and both failures reported.
ManualWithNothingInstalled ==
    /\ last.handler = "manual" /\ last.status = "ok"
    /\ env = [winsound |-> FALSE, playsound |-> FALSE, pydub |-> FALSE]
    /\ last.calls = <<"generate_tone", "save_wav", "play_wav_nonblocking",
                      "wav_to_mp3">>
    /\ last.reports = <<"print: No playback library available",
                        "showerror: MP3 Save Failed">>
    /\ last.wav_path \in files

\* ------------------------------------------------------------------ C9
\* C9: every save_wav call returns a path no other call returned, so there
\* are as many files as calls and no call writes over an earlier file.
SavedPathsDistinct ==
    /\ Cardinality(files) = nsaves
    /\ last.handler # "none" => ~last.overwrote

\* ------------------------------------------------------------------ C11
\* The note generate_ai_melody appended last, when it has appended one.
LastEmitted == melody[Len(melody)]

\* C11 as stated: the training sequence's final note is no key of MARKOV, so
\* when generate_ai_melody's loop holds that note as its current note it
\* holds a note with no recorded transition list and takes the restart branch.
FinalNoteIsNoKey ==
    (mreq.gen = "ai" /\ mpc = "loop"
        /\ current = training_melody[Len(training_melody)]) =>
            current \notin DOMAIN MARKOV

\* C11: every note of the 18-note training sequence is a key of MARKOV (the
\* final note C4 also occurs at positions 1, 10 and 11, so its list is
\* D4, C4, E4), and the current note of generate_ai_melody's loop is always
\* a key: the restart branch is never taken.
EveryTrainingNoteIsAKey ==
    /\ Len(training_melody) = 18
    /\ Elems(training_melody) \subseteq DOMAIN MARKOV
    /\ DOMAIN MARKOV \subseteq Elems(training_melody)
    /\ training_melody[Len(training_melody)] \in DOMAIN MARKOV
    /\ \A note \in Elems(training_melody) : Len(MARKOV[note]) >= 1
    /\ (mreq.gen = "ai" /\ mpc = "loop") => current \in DOMAIN MARKOV
    /\ (mreq.gen = "ai" /\ mpc = "loop" /\ Len(melody) >= 1) =>
          current \in Elems(MARKOV[LastEmitted])

\* The loop has emitted the training sequence's final note and gone on with
\* a note of that note's transition list.
FinalNoteFollowed ==
    /\ mreq.gen = "ai" /\ mpc = "loop" /\ Len(melody) >= 1
    /\ LastEmitted = training_melody[Len(training_melody)]
    /\ MARKOV[LastEmitted] = <<"D4", "C4", "E4">>
    /\ current = "E4"

\* ------------------------------------------------------------------ C12
\* (a, b) is a pair of adjacent notes (melody[i], melody[i+1]) of the
\* training sequence.
ObservedStep(a, b) ==
    \E i \in 1..(Len(training_melody) - 1) :
        training_melody[i] = a /\ training_melody[i + 1] = b

\* C12: whatever the random choices, every two consecutive notes of the
\* melody generate_ai_melody builds and returns are a pair of adjacent notes
\* of the training sequence, and so is the last note emitted with the note
\* chosen to follow it.
AiStepsObservedInTraining ==
    mreq.gen = "ai" =>
        /\ \A i \in 1..(Len(melody) - 1) : ObservedStep(melody[i], melody[i + 1])
        /\ (mpc = "loop" /\ Len(melody) >= 1) => ObservedStep(LastEmitted, current)

\* generate_ai_melody(MaxLen) has returned a melody that passes through C5,
\* which occurs once in the training sequence, and goes on.
AiMelodyThroughC5 ==
    /\ mreq.gen = "ai" /\ mpc = "done"
    /\ mreq.length = MaxLen /\ Len(melody) = MaxLen /\ MaxLen >= 3
    /\ melody[MaxLen - 2] = "G4" /\ melody[MaxLen - 1] = "C5"
    /\ melody[MaxLen] = "G4"

====
